---- MODULE Spec2Model ----
(***************************************************************************)
(* A model of the Gact store (src/src/createStore.ts) and of the helpers   *)
(* it is built from: getByPath, getContainer, clone, computePathLineage    *)
(* and the read manager.                                                   *)
(*                                                                         *)
(* The store is synchronous.  Code outside the engine (the caller, the     *)
(* body of a transaction, an updater) runs between the engine's handlers;  *)
(* `stack` holds the callbacks of the engine that are currently running.   *)
(* Objects owned by code outside the engine live in `heap`; a value        *)
(* [t |-> "ref"] is a reference to such an object, so that aliasing        *)
(* between the caller's objects and the canonical state can be expressed.  *)
(***************************************************************************)
EXTENDS Integers, Sequences, FiniteSets, TLC

VARIABLES
  state,              \* createStore.ts: let state
  heap,               \* objects held by code outside the engine
  frozenClones,       \* createReadManager.ts: const frozenClones
  initialized,        \* createStore.ts: let initialized
  activeUpdate,       \* createStore.ts: let activeUpdate
  activeTransaction,  \* createStore.ts: let activeTransaction
  transactionWrites,  \* createStore.ts: let transactionWrites
  transactionEvents,  \* createStore.ts: let transactionEvents
  listeners,          \* createStore.ts: const listeners
  delivered,          \* what each listener function has been called with
  stack,              \* the running callbacks: transaction bodies, updaters
  lastResult,         \* outcome of the last access-layer call
  txPre,              \* state and clones when the last transaction was entered
  initialState,       \* the value createStore was given, as it then was
  nops,               \* number of steps taken by code outside the engine
  canonicalPaths      \* createPathFactory.ts: const canonicalPaths

vars == <<state, heap, frozenClones, initialized, activeUpdate,
          activeTransaction, transactionWrites, transactionEvents,
          listeners, delivered, stack, lastResult, txPre, initialState,
          nops, canonicalPaths>>

(***************************************************************************)
(* Bounds                                                                  *)
(***************************************************************************)
MaxOps == 3
MaxPathLen == 2
MaxDepth == 2
MaxParts == 2
MaxCloneDepth == 4

Keys == {"a", "b"}
Listeners == {"l1", "l2"}
ObjIds == {"x", "inp", "g"}

\* the object of code outside the engine that the engine has frozen: the
\* result of a get that the caller has kept
FrozenIds == {"g"}

(***************************************************************************)
(* StoreValue                                                              *)
(***************************************************************************)
Prim(n) == [t |-> "prim", v |-> n]
Rec(f) == [t |-> "rec", f |-> f]
Ref(id) == [t |-> "ref", id |-> id]
Null == [t |-> "null"]
Undefined == [t |-> "undefined"]
NotFound == [t |-> "notfound"]

EmptyFields == [k \in {} |-> Null]
Rec1(k, v) == Rec([j \in {k} |-> v])

Deref(h, v) == IF v.t = "ref" THEN h[v.id] ELSE v

isPrimitive(v) == v.t \in {"prim", "null"}

isContainer(v) == v.t = "rec"

hasOwnProperty(v, key) == isContainer(v) /\ key \in DOMAIN v.f

Front(s) == SubSeq(s, 1, Len(s) - 1)

Last(s) == s[Len(s)]

Paths == UNION {[1..n -> Keys] : n \in 0..MaxPathLen}

RECURSIVE String(_)
String(path) ==
  IF Len(path) = 0 THEN ""
  ELSE IF Len(path) = 1 THEN path[1]
  ELSE path[1] \o "," \o String(Tail(path))

(***************************************************************************)
(* createPathFactory.  A path is an array: an object with an identity (id) *)
(* and its keys.  canonicalPaths maps String(keys) to the array stored     *)
(* under it.                                                               *)
(***************************************************************************)
PathObj(id, keys) == [id |-> id, keys |-> keys]

EmptyPaths == [k \in {} |-> PathObj(0, <<>>)]

\* for (const pathPart of pathParts): an array is spliced, a key is pushed
RECURSIVE Flatten(_)
Flatten(pathParts) ==
  IF pathParts = <<>> THEN <<>>
  ELSE LET pathPart == Head(pathParts) IN
       (IF "keys" \in DOMAIN pathPart THEN pathPart.keys ELSE <<pathPart.key>>)
         \o Flatten(Tail(pathParts))

\* a factory that stores the array of every call
pathAlwaysNew(cp, pathParts, id) ==
  LET new == PathObj(id, Flatten(pathParts)) IN
  [obj |-> new, cp |-> [k \in DOMAIN cp \cup {String(new.keys)} |->
                          IF k = String(new.keys) THEN new ELSE cp[k]]]

\* path(...pathParts), named pathOf because path names a path everywhere
\* else; id is the identity of the array the call creates
pathOf(cp, pathParts, id) ==
  LET new == PathObj(id, Flatten(pathParts))
      pathKey == String(new.keys)
  IN IF pathKey \in DOMAIN cp
     THEN [obj |-> cp[pathKey], cp |-> cp]
     ELSE [obj |-> new, cp |-> (pathKey :> new) @@ cp]

\* canonicalPaths.get(String(path)) === path, for any array
fromFactoryOf(cp, p) ==
  String(p.keys) \in DOMAIN cp /\ cp[String(p.keys)].id = p.id

\* the identity of the array a path of Paths was produced as: the caller of
\* the store has produced every path it uses, each once
KeyNumber(key) == IF key = "a" THEN 1 ELSE 2

RECURSIVE PathId(_)
PathId(keys) ==
  IF keys = <<>> THEN 1
  ELSE (Cardinality(Keys) + 1) * PathId(Front(keys)) + KeyNumber(Last(keys))

\* the factory once it has produced the paths of the set
Produced(paths) ==
  [k \in {String(p) : p \in paths} |->
     LET p == CHOOSE q \in paths : String(q) = k IN PathObj(PathId(p), p)]

(***************************************************************************)
(* clone: a deep copy that shares no object with its argument.  References *)
(* to objects of the caller are followed and copied.                       *)
(***************************************************************************)
RECURSIVE cloneHelper(_, _)
cloneHelper(h, value) ==
  LET v == Deref(h, value) IN
  IF isContainer(v)
  THEN Rec([k \in DOMAIN v.f |-> cloneHelper(h, v.f[k])])
  ELSE v

\* the objects of the caller that the walk of cloneHelper comes to, each
\* with the keys that lead to it; above are the objects on the way from the
\* root, where a walk that has come round a cycle ends
RECURSIVE references(_, _, _, _)
references(h, value, at, above) ==
  LET v == Deref(h, value)
      isObject == value.t = "ref" /\ isContainer(v)
      here == IF isObject THEN {<<at, value.id>>} ELSE {}
  IN IF ~isContainer(v) \/ (isObject /\ value.id \in above) THEN here
     ELSE here \cup UNION {references(h, v.f[k], Append(at, k),
                                      IF isObject THEN above \cup {value.id}
                                      ELSE above) : k \in DOMAIN v.f}

\* cloneHelper rejects a property that has not the default descriptor, as
\* every property of a frozen object: the walk comes to a frozen container
\* that is not empty
invalidDescriptor(h, value) ==
  \E r \in references(h, value, <<>>, {}) :
    r[2] \in FrozenIds /\ DOMAIN h[r[2]].f # {}

\* cloneHelper meets an object that is already in clonedValues: the value
\* is not reference agnostic
repeatedReference(h, value) ==
  \E r1, r2 \in references(h, value, <<>>, {}) : r1 # r2 /\ r1[2] = r2[2]

\* a walk that stops at the children
childPaths(h, path, value) ==
  LET v == Deref(h, value) IN
  IF ~isContainer(v) THEN {} ELSE {Append(path, k) : k \in DOMAIN v.f}

\* a clone that hands back the very object it was given
cloneShared(h, value) == value

\* a copy of the object itself that keeps the objects it refers to
cloneShallow(h, value) == Deref(h, value)

clone(h, value) == cloneHelper(h, value)

\* the error clone raises for the value, "ok" when it returns
cloneError(h, value) ==
  IF invalidDescriptor(h, value) THEN "InvalidDescriptor"
  ELSE IF repeatedReference(h, value) THEN "ReferenceCycle"
  ELSE "ok"

(***************************************************************************)
(* getByPath, getContainer                                                 *)
(***************************************************************************)
RECURSIVE getByPath(_, _, _)
getByPath(h, value, path) ==
  IF Len(path) = 0 THEN value
  ELSE LET c == Deref(h, value) IN
       IF hasOwnProperty(c, Head(path))
       THEN getByPath(h, c.f[Head(path)], Tail(path))
       ELSE NotFound

getContainer(h, s, path) == getByPath(h, s, Front(path))

\* Reflect.set(container, key, value) on the container found at Front(path)
RECURSIVE setIn(_, _, _, _)
setIn(h, value, path, new) ==
  IF Len(path) = 0 THEN new
  ELSE LET c == Deref(h, value) IN
       Rec([k \in DOMAIN c.f \cup {Head(path)} |->
              IF k = Head(path)
              THEN setIn(h, IF k \in DOMAIN c.f THEN c.f[k] ELSE Null,
                         Tail(path), new)
              ELSE c.f[k]])

\* Reflect.deleteProperty(container, key) on the container found at Front(path)
RECURSIVE deleteIn(_, _, _)
deleteIn(h, value, path) ==
  LET c == Deref(h, value) IN
  IF Len(path) = 1
  THEN Rec([k \in DOMAIN c.f \ {Head(path)} |-> c.f[k]])
  ELSE Rec([k \in DOMAIN c.f |->
              IF k = Head(path) THEN deleteIn(h, c.f[k], Tail(path))
              ELSE c.f[k]])

(***************************************************************************)
(* computePathLineage                                                      *)
(***************************************************************************)
computeAncestorPaths(path) == {SubSeq(path, 1, i) : i \in 0..(Len(path) - 1)}

RECURSIVE computeDescendantPaths(_, _, _)
computeDescendantPaths(h, path, value) ==
  LET v == Deref(h, value) IN
  IF ~isContainer(v) THEN {}
  ELSE UNION {{Append(path, k)}
                \cup computeDescendantPaths(h, Append(path, k), v.f[k])
              : k \in DOMAIN v.f}

computePathLineage(h, path, value) ==
  computeAncestorPaths(path) \cup {path}
    \cup computeDescendantPaths(h, path, value)

(***************************************************************************)
(* The read manager: frozenClones maps String(path) to a frozen clone.     *)
(* readClone is readManager.clone; it returns the clone and the new map.   *)
(***************************************************************************)
EmptyClones == [k \in {} |-> Null]

RECURSIVE readClone(_, _, _, _)
RECURSIVE readCloneEntries(_, _, _, _, _, _)
readClone(fc, h, path, value) ==
  LET v == Deref(h, value) IN
  IF isPrimitive(v) THEN [val |-> v, fc |-> fc]
  ELSE IF String(path) \in DOMAIN fc
  THEN [val |-> fc[String(path)], fc |-> fc]
  ELSE LET r == readCloneEntries(fc, h, path, v, DOMAIN v.f, EmptyFields) IN
       [val |-> Rec(r.f), fc |-> (String(path) :> Rec(r.f)) @@ r.fc]

readCloneEntries(fc, h, path, v, todo, done) ==
  IF todo = {} THEN [f |-> done, fc |-> fc]
  ELSE LET key == CHOOSE k \in todo : TRUE
           c == readClone(fc, h, Append(path, key), v.f[key])
       IN readCloneEntries(c.fc, h, path, v, todo \ {key},
                           (key :> c.val) @@ done)

reset(fc) == EmptyClones

\* a reconcile that empties the cache
reconcileEverything(fc, paths) == EmptyClones

reconcile(fc, paths) ==
  [k \in DOMAIN fc \ {String(p) : p \in paths} |-> fc[k]]

(***************************************************************************)
(* Events                                                                  *)
(***************************************************************************)
createInitEvent(s) == [type |-> "INIT", state |-> s]

createGetEvent(path, value) == [type |-> "GET", path |-> path, value |-> value]

createSetEvent(path, prevValue, value) ==
  [type |-> "SET", path |-> path, prevValue |-> prevValue, value |-> value]

createUpdateEvent(path, prevValue, value) ==
  [type |-> "UPDATE", path |-> path, prevValue |-> prevValue, value |-> value]

createRemoveEvent(path, prevValue) ==
  [type |-> "REMOVE", path |-> path, prevValue |-> prevValue]

createTransactionEvent(events) == [type |-> "TRANSACTION", events |-> events]

(***************************************************************************)
(* The store.  A handler is an operator from the store's variables (the    *)
(* record Cur) to their new values, with the outcome of the call.          *)
(***************************************************************************)
Cur ==
  [state |-> state, heap |-> heap, frozenClones |-> frozenClones,
   initialized |-> initialized, activeUpdate |-> activeUpdate,
   activeTransaction |-> activeTransaction,
   transactionWrites |-> transactionWrites,
   transactionEvents |-> transactionEvents,
   listeners |-> listeners, delivered |-> delivered]

Out(st, res, val) == [st |-> st, res |-> res, val |-> val]

\* a notifyListeners that reaches every listener there ever was
notifyEveryone(st, event) ==
  [st EXCEPT !.delivered = [l \in Listeners |-> Append(st.delivered[l], event)]]

notifyListeners(st, event) ==
  [st EXCEPT !.delivered =
     [l \in Listeners |->
        IF l \in st.listeners THEN Append(st.delivered[l], event)
        ELSE st.delivered[l]]]

\* an announce that never buffers
announceAtOnce(st, event) == notifyListeners(st, event)

announce(st, event) ==
  IF st.activeTransaction
  THEN [st EXCEPT !.transactionEvents = Append(@, event)]
  ELSE notifyListeners(st, event)

\* a prelude that marks the store as used and tells nobody
makeInitAwareSilent(st) == [st EXCEPT !.initialized = TRUE]

\* a prelude that broadcasts Init at every operation
makeInitAwareEveryTime(st) ==
  LET c == readClone(st.frozenClones, st.heap, <<>>, st.state) IN
  notifyListeners([st EXCEPT !.initialized = TRUE, !.frozenClones = c.fc],
                  createInitEvent(c.val))

\* the prelude of makeInitAware's wrapper; the wrapped function runs next
makeInitAware(st) ==
  IF ~st.initialized
  THEN LET c == readClone(st.frozenClones, st.heap, <<>>, st.state) IN
       notifyListeners(
         [st EXCEPT !.initialized = TRUE, !.frozenClones = c.fc],
         createInitEvent(c.val))
  ELSE st

get(st, path) ==
  LET found == getByPath(st.heap, st.state, path) IN
  IF found.t = "notfound" THEN Out(st, "PathNotFound", Undefined)
  ELSE LET c == readClone(st.frozenClones, st.heap, path, found) IN
       Out(announce([st EXCEPT !.frozenClones = c.fc],
                    createGetEvent(path, c.val)),
           "ok", c.val)

set(st, path, arg) ==
  LET h == st.heap
      value == clone(h, arg)
  IN
  IF cloneError(h, arg) # "ok" THEN Out(st, cloneError(h, arg), Undefined)
  ELSE IF Len(path) = 0
  THEN LET prevValue == cloneHelper(h, st.state)
           s1 == [st EXCEPT !.frozenClones = reset(@), !.state = value]
           c == readClone(s1.frozenClones, h, path, value)
       IN Out(announce([s1 EXCEPT !.frozenClones = c.fc],
                       createSetEvent(path, prevValue, c.val)),
              "ok", Undefined)
  ELSE LET container == Deref(h, getContainer(h, st.state, path))
           key == Last(path)
       IN
       IF container.t = "notfound" THEN Out(st, "PathNotFound", Undefined)
       ELSE IF ~isContainer(container) THEN Out(st, "TypeError", Undefined)
       ELSE LET has == hasOwnProperty(container, key)
                prevValue == IF has THEN container.f[key] ELSE Null
                fc1 == IF has
                       THEN reconcile(st.frozenClones,
                                      computePathLineage(h, path, prevValue))
                       ELSE st.frozenClones
                s1 == [st EXCEPT !.frozenClones = fc1,
                                 !.state = setIn(h, @, path, value)]
                c == readClone(fc1, h, path, value)
            IN Out(announce([s1 EXCEPT !.frozenClones = c.fc],
                     createSetEvent(path, cloneHelper(h, prevValue), c.val)),
                   "ok", Undefined)

remove(st, path) ==
  LET h == st.heap IN
  IF Len(path) = 0 THEN Out(st, "CannotRemoveRoot", Undefined)
  ELSE LET container == Deref(h, getContainer(h, st.state, path))
           key == Last(path)
       IN
       IF container.t = "notfound" THEN Out(st, "PathNotFound", Undefined)
       ELSE IF ~isContainer(container) THEN Out(st, "TypeError", Undefined)
       ELSE IF ~hasOwnProperty(container, key)
       THEN Out(st, "PathNotFound", Undefined)
       ELSE LET prevValue == container.f[key]
                s1 == [st EXCEPT
                         !.state = deleteIn(h, @, path),
                         !.frozenClones =
                           reconcile(@, computePathLineage(h, path, prevValue))]
            IN Out(announce(s1,
                     createRemoveEvent(path, cloneHelper(h, prevValue))),
                   "ok", Undefined)

(***************************************************************************)
(* update, up to the call of the updater.  The updater is handed the       *)
(* object stored at the path itself: a container is from then on an object *)
(* held by code outside the engine ("inp") that the state refers to.       *)
(***************************************************************************)
handToUpdater(st, path, value) ==
  IF isContainer(Deref(st.heap, value))
  THEN [st EXCEPT !.heap = [@ EXCEPT !.inp = cloneHelper(st.heap, value)],
                  !.state = setIn(st.heap, @, path, Ref("inp"))]
  ELSE st

updateBegin(st, path) ==
  LET h == st.heap
      s0 == [st EXCEPT !.activeUpdate = TRUE]
  IN
  IF Len(path) = 0
  THEN LET c == readClone(s0.frozenClones, h, path, s0.state)
           s1 == [s0 EXCEPT !.frozenClones = reset(c.fc)]
       IN Out(handToUpdater(s1, path, s1.state), "ok", c.val)
  ELSE LET container == Deref(h, getContainer(h, s0.state, path))
           key == Last(path)
       IN
       IF ~hasOwnProperty(container, key)
       THEN Out(s0, "PathNotFound", Undefined)
       ELSE LET value == container.f[key]
                c == readClone(s0.frozenClones, h, path, value)
                s1 == [s0 EXCEPT !.frozenClones =
                         reconcile(c.fc, computePathLineage(h, path, c.val))]
            IN Out(handToUpdater(s1, path, value), "ok", c.val)

\* update, from the return of the updater on
updateEnd(st, path, prevValue, input, updatedValue) ==
  LET h == st.heap
      arg == IF updatedValue.t # "undefined" THEN updatedValue ELSE input
      value == clone(h, arg)
      s1 == [st EXCEPT !.state = setIn(h, @, path, value),
                       !.activeUpdate = FALSE]
      c == readClone(s1.frozenClones, h, path, value)
  IN IF cloneError(h, arg) # "ok"
     THEN Out(st, cloneError(h, arg), Undefined)
     ELSE Out(announce([s1 EXCEPT !.frozenClones = c.fc],
                       createUpdateEvent(path, prevValue, c.val)),
              "ok", Undefined)

\* a transaction that starts whatever is going on
transactionBeginUnguarded(st) ==
  Out([st EXCEPT !.activeTransaction = TRUE], "ok", Undefined)

transactionBegin(st) ==
  IF st.activeUpdate THEN Out(st, "TransactionDuringUpdateForbidden", Undefined)
  ELSE IF st.activeTransaction
  THEN Out(st, "ConcurrentTransactionForbidden", Undefined)
  ELSE Out([st EXCEPT !.activeTransaction = TRUE], "ok", Undefined)

\* transaction, once every deferred write has run
\* an end of transaction that leaves the buffers as they are
transactionEndKeeping(st) ==
  notifyListeners([st EXCEPT !.activeTransaction = FALSE],
                  createTransactionEvent(st.transactionEvents))

transactionEnd(st) ==
  LET event == createTransactionEvent(st.transactionEvents) IN
  notifyListeners(
    [st EXCEPT !.transactionWrites = <<>>, !.transactionEvents = <<>>,
               !.activeTransaction = FALSE],
    event)

canMutateSubscriptions(st) == ~st.activeUpdate /\ ~st.activeTransaction

subscribe(st, l) ==
  IF ~canMutateSubscriptions(st)
  THEN Out(st, "SubscriptionMutationForbidden", Undefined)
  ELSE Out([st EXCEPT !.listeners = @ \cup {l}], "ok", Undefined)

unsubscribe(st, l) ==
  IF ~canMutateSubscriptions(st)
  THEN Out(st, "SubscriptionMutationForbidden", Undefined)
  ELSE Out([st EXCEPT !.listeners = @ \ {l}], "ok", Undefined)

(***************************************************************************)
(* The values code outside the engine works with                           *)
(***************************************************************************)
InitialStates ==
  { Rec1("a", Rec1("a", Rec1("a", Prim(1)))),
    Rec([k \in Keys |-> IF k = "a" THEN Prim(1) ELSE Rec1("a", Prim(1))]) }

InputValues == {Prim(1), Prim(2), Ref("x")}

UpdaterResults == {Undefined, Prim(2), Ref("x")}

MutationValues == {Undefined, Prim(2)}

(***************************************************************************)
(* Actions                                                                 *)
(***************************************************************************)
Top == stack[Len(stack)]

Pop == Front(stack)

InBody == stack # <<>> /\ Top.k = "tx" /\ Top.ph = "body"

InWrites == stack # <<>> /\ Top.k = "tx" /\ Top.ph = "writes"

InUpdater == stack # <<>> /\ Top.k = "upd"

\* notifyListeners has called a listener, which has not returned yet
InCallback == stack # <<>> /\ Top.k = "ntf" /\ Top.cur # "none"

\* the frame below the top one is that of a transaction: the update on top
\* is one of its deferred writes
InDeferred == Len(Pop) > 0 /\ Pop[Len(Pop)].k = "tx"

\* code outside the engine is running: the caller of the store, the body of
\* a transaction, an updater or a listener
CallerRuns == stack = <<>> \/ InBody \/ InUpdater \/ InCallback

Install(st) ==
  /\ state' = st.state
  /\ heap' = st.heap
  /\ frozenClones' = st.frozenClones
  /\ initialized' = st.initialized
  /\ activeUpdate' = st.activeUpdate
  /\ activeTransaction' = st.activeTransaction
  /\ transactionWrites' = st.transactionWrites
  /\ transactionEvents' = st.transactionEvents
  /\ listeners' = st.listeners
  /\ delivered' = st.delivered
  /\ UNCHANGED canonicalPaths

Result(op, path, res, val) ==
  [op |-> op, path |-> path, res |-> res, val |-> val]

\* a call of a writer with its arguments; canon tells whether the path
\* argument is the instance the store's own path factory returned
Write(op, path, value) ==
  [op |-> op, path |-> path, value |-> value, canon |-> TRUE]

\* the same call with a path that is another array of the same keys
RawWrite(op, path, value) ==
  [op |-> op, path |-> path, value |-> value, canon |-> FALSE]

\* canonicalPaths.get(String(path)) === path
fromFactory(w) == w.canon

TxFrame ==
  [k |-> "tx", ph |-> "body", next |-> 1, n |-> 0, calls |-> <<>>,
   done |-> <<>>]

\* pre is the state as it was when update was called
UpdFrame(st, path, prevValue) ==
  [k |-> "upd", path |-> path, prev |-> prevValue,
   input |-> getByPath(st.heap, st.state, path),
   pre |-> cloneHelper(st.heap, st.state)]

\* the body of a transaction keeps a record of the CRUD calls it makes
Called(op, path, ok, arg) ==
  IF InBody
  THEN [stack EXCEPT ![Len(stack)].calls =
          Append(@, [op |-> op, path |-> path, ok |-> ok, arg |-> arg])]
  ELSE stack

\* a deferred write has run: the next round of forEach
Ran(stk, op, path, value) ==
  [stk EXCEPT ![Len(stk)].next = @ + 1,
              ![Len(stk)].done =
                 Append(@, [op |-> op, path |-> path, value |-> value])]

\* a wrapper that lets a write through while an update is active
runWriterUnguarded(st, w) ==
  IF ~fromFactory(w) THEN Out(st, "InvalidPath", Undefined)
  ELSE IF w.op = "set" THEN set(st, w.path, w.value)
  ELSE remove(st, w.path)

\* makeUpdateAware(makePathFactoryAware(writer)) for set and remove
runWriter(st, w) ==
  IF st.activeUpdate THEN Out(st, "NestedWriteForbidden", Undefined)
  ELSE IF ~fromFactory(w) THEN Out(st, "InvalidPath", Undefined)
  ELSE IF w.op = "set" THEN set(st, w.path, w.value)
  ELSE remove(st, w.path)

\* makeUpdateAware(makePathFactoryAware(update)), up to the updater
runUpdate(st, w) ==
  IF st.activeUpdate THEN Out(st, "NestedWriteForbidden", Undefined)
  ELSE IF ~fromFactory(w) THEN Out(st, "InvalidPath", Undefined)
  ELSE updateBegin(st, w.path)

\* a queue that also carries a set or a remove out at once
deferAndRun(st, w) ==
  IF w.op = "update" THEN [st EXCEPT !.transactionWrites = Append(@, w)]
  ELSE [runWriter([st EXCEPT !.activeTransaction = FALSE], w).st
          EXCEPT !.transactionWrites = Append(@, w),
                 !.activeTransaction = TRUE]

\* a queue that takes the latest write first
deferFirst(st, w) == [st EXCEPT !.transactionWrites = <<w>> \o @]

\* a queue that forgets the write
deferNothing(st, w) == st

\* makeTransactionAware: the write is queued while a transaction is active
defer(st, w) == [st EXCEPT !.transactionWrites = Append(@, w)]

Get(path) ==
  /\ CallerRuns /\ nops < MaxOps
  /\ LET o == get(makeInitAware(Cur), path) IN
       /\ Install(o.st)
       /\ lastResult' = Result("get", path, o.res, o.val)
       /\ stack' = Called("get", path, o.res = "ok", Undefined)
  /\ nops' = nops + 1
  /\ UNCHANGED <<txPre, initialState>>

SetOrRemove(w) ==
  /\ CallerRuns /\ nops < MaxOps
  /\ LET s1 == makeInitAware(Cur) IN
       IF s1.activeTransaction
       THEN /\ Install(defer(s1, w))
            /\ lastResult' = Result(w.op, w.path, "deferred", w.value)
       ELSE LET o == runWriter(s1, w) IN
            /\ Install(o.st)
            /\ lastResult' = Result(w.op, w.path, o.res, w.value)
  /\ stack' = Called(w.op, w.path, TRUE, cloneHelper(heap, w.value))
  /\ nops' = nops + 1
  /\ UNCHANGED <<txPre, initialState>>

Set(path, value) == SetOrRemove(Write("set", path, value))

Remove(path) == SetOrRemove(Write("remove", path, Undefined))

UpdateWith(w) ==
  /\ CallerRuns /\ nops < MaxOps
  /\ LET s1 == makeInitAware(Cur) IN
       IF s1.activeTransaction
       THEN /\ Install(defer(s1, w))
            /\ lastResult' = Result("update", w.path, "deferred", Undefined)
            /\ stack' = Called("update", w.path, TRUE, Undefined)
       ELSE LET o == runUpdate(s1, w) IN
            /\ Install(o.st)
            /\ IF o.res = "ok"
               THEN /\ stack' = Append(stack, UpdFrame(o.st, w.path, o.val))
                    /\ lastResult' = Result("update", w.path, "running", Undefined)
               ELSE /\ stack' = stack
                    /\ lastResult' = Result("update", w.path, o.res, Undefined)
  /\ nops' = nops + 1
  /\ UNCHANGED <<txPre, initialState>>

Update(path) == UpdateWith(Write("update", path, Undefined))

\* the updater returns updatedValue: the rest of update runs
UpdaterReturn(updatedValue) ==
  /\ InUpdater
  /\ LET o == updateEnd(Cur, Top.path, Top.prev, Top.input, updatedValue) IN
       /\ Install(o.st)
       /\ lastResult' = Result("update", Top.path, o.res, updatedValue)
       /\ stack' = IF ~InDeferred THEN Pop
                   ELSE IF o.res # "ok" THEN Front(Pop)
                   ELSE Ran(Pop, "update", Top.path,
                            cloneHelper(heap, IF updatedValue.t # "undefined"
                                              THEN updatedValue ELSE Top.input))
  /\ UNCHANGED <<txPre, initialState, nops>>

\* the updater throws: update, and a transaction that was running it as a
\* deferred write, are left by the exception
UpdaterThrow ==
  /\ InUpdater
  /\ stack' = IF InDeferred THEN Front(Pop) ELSE Pop
  /\ lastResult' = Result("update", Top.path, "UpdaterError", Undefined)
  /\ UNCHANGED <<state, heap, frozenClones, initialized, activeUpdate,
                 activeTransaction, transactionWrites, transactionEvents,
                 listeners, delivered, txPre, initialState, nops,
                 canonicalPaths>>

Transaction ==
  /\ CallerRuns /\ nops < MaxOps
  /\ LET o == transactionBegin(makeInitAware(Cur)) IN
       /\ Install(o.st)
       /\ IF o.res = "ok"
          THEN /\ stack' = Append(stack, TxFrame)
               /\ lastResult' = Result("transaction", <<>>, "running", Undefined)
               /\ txPre' = [state |-> cloneHelper(heap, state),
                            fc |-> o.st.frozenClones]
          ELSE /\ stack' = stack
               /\ lastResult' = Result("transaction", <<>>, o.res, Undefined)
               /\ txPre' = txPre
  /\ nops' = nops + 1
  /\ UNCHANGED initialState

\* runTransaction returns: forEach starts on the writes queued so far
BodyReturn ==
  /\ InBody
  /\ stack' = [stack EXCEPT ![Len(stack)].ph = "writes",
                            ![Len(stack)].n = Len(transactionWrites)]
  /\ UNCHANGED <<state, heap, frozenClones, initialized, activeUpdate,
                 activeTransaction, transactionWrites, transactionEvents,
                 listeners, delivered, lastResult, txPre, initialState, nops,
                 canonicalPaths>>

\* runTransaction throws
BodyThrow ==
  /\ InBody
  /\ stack' = Pop
  /\ lastResult' = Result("transaction", <<>>, "BodyError", Undefined)
  /\ UNCHANGED <<state, heap, frozenClones, initialized, activeUpdate,
                 activeTransaction, transactionWrites, transactionEvents,
                 listeners, delivered, txPre, initialState, nops,
                 canonicalPaths>>

\* one round of transactionWrites.forEach; a write that throws ends forEach
\* and transaction
RunWrite ==
  /\ InWrites /\ Top.next <= Top.n
  /\ LET w == transactionWrites[Top.next]
         o == IF w.op = "update" THEN runUpdate(Cur, w)
              ELSE runWriter(Cur, w)
     IN
       /\ Install(o.st)
       /\ IF o.res # "ok"
          THEN /\ stack' = Pop
               /\ lastResult' = Result(w.op, w.path, o.res, w.value)
          ELSE IF w.op = "update"
          THEN /\ stack' = Append(stack, UpdFrame(o.st, w.path, o.val))
               /\ lastResult' = Result("update", w.path, "running", Undefined)
          ELSE /\ stack' = Ran(stack, w.op, w.path, cloneHelper(heap, w.value))
               /\ lastResult' = Result(w.op, w.path, "ok", w.value)
  /\ UNCHANGED <<txPre, initialState, nops>>

TransactionEnd ==
  /\ InWrites /\ Top.next > Top.n
  /\ Install(transactionEnd(Cur))
  /\ stack' = Pop
  /\ lastResult' = Result("transaction", <<>>, "ok", Undefined)
  /\ UNCHANGED <<txPre, initialState, nops>>

\* cost is what the call takes from the budget of MaxOps operations
Subscribe(l, cost) ==
  /\ CallerRuns /\ nops + cost <= MaxOps
  /\ LET o == subscribe(Cur, l) IN
       /\ Install(o.st)
       /\ lastResult' = Result("subscribe", <<>>, o.res, Undefined)
  /\ nops' = nops + cost
  /\ UNCHANGED <<stack, txPre, initialState>>

Unsubscribe(l, cost) ==
  /\ CallerRuns /\ nops + cost <= MaxOps
  /\ l \in listeners
  /\ LET o == unsubscribe(Cur, l) IN
       /\ Install(o.st)
       /\ lastResult' = Result("unsubscribe", <<>>, o.res, Undefined)
  /\ nops' = nops + cost
  /\ UNCHANGED <<stack, txPre, initialState>>

\* code outside the engine assigns (or deletes, with Undefined) a property of
\* an object it holds
mutate(obj, key, value) ==
  IF value.t = "undefined"
  THEN Rec([k \in DOMAIN obj.f \ {key} |-> obj.f[k]])
  ELSE Rec([k \in DOMAIN obj.f \cup {key} |->
              IF k = key THEN value ELSE obj.f[k]])

CallerMutate(id, key, value) ==
  /\ CallerRuns /\ nops < MaxOps
  /\ isContainer(heap[id])
  /\ mutate(heap[id], key, value) # heap[id]
  /\ heap' = [heap EXCEPT ![id] = mutate(@, key, value)]
  /\ lastResult' = Result("mutate", <<>>, id, Undefined)
  /\ nops' = nops + 1
  /\ UNCHANGED <<state, frozenClones, initialized, activeUpdate,
                 activeTransaction, transactionWrites, transactionEvents,
                 listeners, delivered, stack, txPre, initialState,
                 canonicalPaths>>

\* createStore(initialState)
InitWith(x0) ==
  /\ heap = [id \in ObjIds |-> IF id = "x" THEN x0 ELSE Undefined]
  /\ initialState = x0
  /\ state = clone(heap, Ref("x"))
  /\ frozenClones = EmptyClones
  /\ initialized = FALSE
  /\ activeUpdate = FALSE
  /\ activeTransaction = FALSE
  /\ transactionWrites = <<>>
  /\ transactionEvents = <<>>
  /\ listeners = {}
  /\ delivered = [l \in Listeners |-> <<>>]
  /\ stack = <<>>
  /\ lastResult = Result("none", <<>>, "ok", Undefined)
  /\ txPre = [state |-> Undefined, fc |-> EmptyClones]
  /\ nops = 0

Init == canonicalPaths = Produced(Paths) /\ \E x0 \in InitialStates : InitWith(x0)

Next ==
  \/ \E path \in Paths : Get(path)
  \/ \E path \in Paths, value \in InputValues : Set(path, value)
  \/ \E path \in Paths : Remove(path)
  \/ \E path \in Paths : Update(path)
  \/ \E updatedValue \in UpdaterResults : UpdaterReturn(updatedValue)
  \/ UpdaterThrow
  \/ Transaction
  \/ BodyReturn
  \/ BodyThrow
  \/ RunWrite
  \/ TransactionEnd
  \/ \E l \in Listeners : Subscribe(l, 1)
  \/ \E l \in Listeners : Unsubscribe(l, 1)
  \/ \E id \in ObjIds, key \in Keys, value \in MutationValues :
       CallerMutate(id, key, value)

Spec == Init /\ [][Next]_vars

(***************************************************************************)
(* The store with a caller that subscribes and unsubscribes at will: calls *)
(* of subscribe and unsubscribe take nothing from the budget of MaxOps     *)
(* operations, every operation is on one path and every updater returns    *)
(***************************************************************************)
ListenerPaths == {<<"a">>}

ListenerValues == {Prim(2)}

NextListeners ==
  \/ \E path \in ListenerPaths : Get(path)
  \/ \E path \in ListenerPaths, value \in ListenerValues : Set(path, value)
  \/ \E path \in ListenerPaths : Remove(path)
  \/ \E path \in ListenerPaths : Update(path)
  \/ \E updatedValue \in ListenerValues : UpdaterReturn(updatedValue)
  \/ Transaction
  \/ BodyReturn
  \/ RunWrite
  \/ TransactionEnd
  \/ \E l \in Listeners : Subscribe(l, 0)
  \/ \E l \in Listeners : Unsubscribe(l, 0)

SpecListeners == Init /\ [][NextListeners]_vars

(***************************************************************************)
(* The store with a caller that also passes paths it built itself: arrays  *)
(* with the keys of a canonical path that are not the canonical instance   *)
(***************************************************************************)
RawPaths == {<<"a">>, <<"b">>}

RawValues == {Prim(2)}

\* makeInitAware(makePathFactoryAware(get)) with a path that fails fromFactory
GetRaw(path) ==
  /\ CallerRuns /\ nops < MaxOps
  /\ Install(makeInitAware(Cur))
  /\ lastResult' = Result("get", path, "InvalidPath", Undefined)
  /\ stack' = Called("get", path, FALSE, Undefined)
  /\ nops' = nops + 1
  /\ UNCHANGED <<txPre, initialState>>

SetRaw(path, value) == SetOrRemove(RawWrite("set", path, value))

RemoveRaw(path) == SetOrRemove(RawWrite("remove", path, Undefined))

UpdateRaw(path) == UpdateWith(RawWrite("update", path, Undefined))

\* the step is a call of get, set, update or remove with such a path
RawCall ==
  \E path \in RawPaths :
    \/ GetRaw(path)
    \/ \E value \in RawValues : SetRaw(path, value)
    \/ RemoveRaw(path)
    \/ UpdateRaw(path)

NextRaw ==
  \/ \E path \in RawPaths : Get(path)
  \/ \E path \in RawPaths, value \in RawValues : Set(path, value)
  \/ \E path \in RawPaths : Update(path)
  \/ \E path \in RawPaths : GetRaw(path)
  \/ \E path \in RawPaths, value \in RawValues : SetRaw(path, value)
  \/ \E path \in RawPaths : RemoveRaw(path)
  \/ \E path \in RawPaths : UpdateRaw(path)
  \/ \E updatedValue \in RawValues : UpdaterReturn(updatedValue)
  \/ Transaction
  \/ BodyReturn
  \/ RunWrite
  \/ TransactionEnd
  \/ \E l \in Listeners : Subscribe(l, 1)

SpecRaw == Init /\ [][NextRaw]_vars

(***************************************************************************)
(* The store with a caller that keeps the result of a get (the object "g") *)
(* and an updater that assigns it to a property of its input               *)
(***************************************************************************)
HeldResults == {Undefined, Prim(2)}

\* const g = get(path), once, with a container as the result
GetAndKeep(path) ==
  /\ CallerRuns /\ nops < MaxOps
  /\ heap["g"].t = "undefined"
  /\ LET o == get(makeInitAware(Cur), path) IN
       /\ o.res = "ok" /\ isContainer(o.val)
       /\ Install([o.st EXCEPT !.heap = [@ EXCEPT !.g = o.val]])
       /\ lastResult' = Result("get", path, o.res, o.val)
       /\ stack' = Called("get", path, TRUE, Undefined)
  /\ nops' = nops + 1
  /\ UNCHANGED <<txPre, initialState>>

\* input[key] = g, in an updater
AssignKept(key) ==
  /\ InUpdater /\ isContainer(heap["g"])
  /\ CallerMutate("inp", key, Ref("g"))

NextHeld ==
  \/ \E path \in Paths : GetAndKeep(path)
  \/ \E path \in Paths : Get(path)
  \/ \E path \in Paths : Update(path)
  \/ \E key \in Keys : AssignKept(key)
  \/ \E updatedValue \in HeldResults : UpdaterReturn(updatedValue)
  \/ UpdaterThrow

SpecHeld == Init /\ [][NextHeld]_vars

(***************************************************************************)
(* computePathLineage on its own: the store is created with a value of     *)
(* LineageValues and the function is applied to a path and that value      *)
(***************************************************************************)
RecordsOver(values) ==
  {Rec(f) : f \in UNION {[ks -> values] : ks \in SUBSET Keys}}

\* the trees of depth MaxDepth at most, over Keys, with one primitive
RECURSIVE Trees(_)
Trees(depth) ==
  IF depth = 0 THEN {Prim(1)}
  ELSE Trees(depth - 1) \cup RecordsOver(Trees(depth - 1))

LineageValues == Trees(MaxDepth)

PathsResult(paths) == [t |-> "paths", paths |-> paths]

Lineage(path) ==
  /\ lastResult' = Result("computePathLineage", path, "ok",
                          PathsResult(computePathLineage(heap, path, Ref("x"))))
  /\ UNCHANGED <<state, heap, frozenClones, initialized, activeUpdate,
                 activeTransaction, transactionWrites, transactionEvents,
                 listeners, delivered, stack, txPre, initialState, nops,
                 canonicalPaths>>

InitLineage ==
  canonicalPaths = Produced(Paths) /\ \E x0 \in LineageValues : InitWith(x0)

NextLineage == \E path \in Paths : Lineage(path)

SpecLineage == InitLineage /\ [][NextLineage]_vars

(***************************************************************************)
(* The path factory on its own: a caller that produces paths from keys and *)
(* from paths it has produced, and asks fromFactory about arrays           *)
(***************************************************************************)
FactoryKeys == {"a", "b", "a,b"}

\* the arrays stored in a factory
Stored(cp) == {cp[k] : k \in DOMAIN cp}

\* what a call of path can be given: MaxParts parts at most, each a key or
\* a path produced before
PathParts(cp) ==
  LET parts == {[key |-> k] : k \in FactoryKeys} \cup Stored(cp) IN
  UNION {[1..n -> parts] : n \in 0..MaxParts}

\* an array built by the caller: no call of path has created it
RawArray(keys) == PathObj(0, keys)

PathCall(pathParts) ==
  /\ nops < MaxOps
  /\ LET r == pathOf(canonicalPaths, pathParts, nops + 1) IN
       /\ canonicalPaths' = r.cp
       /\ lastResult' = Result("path", Flatten(pathParts), "ok",
                               [t |-> "path", obj |-> r.obj,
                                parts |-> pathParts])
  /\ nops' = nops + 1
  /\ UNCHANGED <<state, heap, frozenClones, initialized, activeUpdate,
                 activeTransaction, transactionWrites, transactionEvents,
                 listeners, delivered, stack, txPre, initialState>>

FromFactory(p) ==
  /\ lastResult' = Result("fromFactory", p.keys, "ok",
                          [t |-> "bool", obj |-> p,
                           v |-> fromFactoryOf(canonicalPaths, p)])
  /\ UNCHANGED <<state, heap, frozenClones, initialized, activeUpdate,
                 activeTransaction, transactionWrites, transactionEvents,
                 listeners, delivered, stack, txPre, initialState, nops,
                 canonicalPaths>>

InitFactory == canonicalPaths = EmptyPaths /\ InitWith(Prim(1))

NextFactory ==
  \/ \E pathParts \in PathParts(canonicalPaths) : PathCall(pathParts)
  \/ \E p \in Stored(canonicalPaths) : FromFactory(p)
  \/ \E p \in Stored(canonicalPaths) : FromFactory(RawArray(p.keys))

SpecFactory == InitFactory /\ [][NextFactory]_vars

(***************************************************************************)
(* clone on its own: the caller holds the objects "x" and "inp", which may *)
(* refer to each other and to themselves, and clones a value built of them *)
(***************************************************************************)
CloneObjects ==
  [x : RecordsOver({Prim(1), Ref("inp"), Ref("x")}) \cup {Prim(1)},
   inp : RecordsOver({Prim(2), Ref("x")})]

CloneArgs ==
  {Prim(1), Null, Ref("x"), Ref("inp")}
    \cup RecordsOver({Prim(1), Ref("x"), Ref("inp")})

CloneResult(arg, val) == [t |-> "clone", arg |-> arg, val |-> val]

\* clone(arg), called by the user
Clone(arg) ==
  /\ LET res == cloneError(heap, arg) IN
       lastResult' = Result("clone", <<>>, res,
                            CloneResult(arg, IF res = "ok"
                                             THEN clone(heap, arg)
                                             ELSE Undefined))
  /\ UNCHANGED <<state, heap, frozenClones, initialized, activeUpdate,
                 activeTransaction, transactionWrites, transactionEvents,
                 listeners, delivered, stack, txPre, initialState, nops,
                 canonicalPaths>>

\* the store itself is left aside: it holds a primitive
InitClone ==
  /\ canonicalPaths = EmptyPaths
  /\ \E objs \in CloneObjects :
       /\ heap = [id \in ObjIds |-> IF id = "x" THEN objs.x
                                    ELSE IF id = "inp" THEN objs.inp
                                    ELSE Undefined]
       /\ initialState = Prim(1)
       /\ state = Prim(1)
       /\ frozenClones = EmptyClones
       /\ initialized = FALSE
       /\ activeUpdate = FALSE
       /\ activeTransaction = FALSE
       /\ transactionWrites = <<>>
       /\ transactionEvents = <<>>
       /\ listeners = {}
       /\ delivered = [l \in Listeners |-> <<>>]
       /\ stack = <<>>
       /\ txPre = [state |-> Undefined, fc |-> EmptyClones]
       /\ nops = 0
       /\ lastResult = Result("none", <<>>, "ok", Undefined)

NextClone == \E arg \in CloneArgs : Clone(arg)

SpecClone == InitClone /\ [][NextClone]_vars

(***************************************************************************)
(* The store with a caller that uses one object, "x", in two places: in a  *)
(* value it passes to set or returns from an updater, and in the input of  *)
(* an updater                                                              *)
(***************************************************************************)
SharedValues == {Ref("x"), Rec([k \in Keys |-> Ref("x")])}

SharedResults == {Undefined} \cup SharedValues

\* input[key] = x, in an updater
AssignShared(key) == InUpdater /\ CallerMutate("inp", key, Ref("x"))

NextShared ==
  \/ \E path \in Paths : Get(path)
  \/ \E path \in Paths, value \in SharedValues : Set(path, value)
  \/ \E path \in Paths : Update(path)
  \/ \E key \in Keys : AssignShared(key)
  \/ \E updatedValue \in SharedResults : UpdaterReturn(updatedValue)
  \/ UpdaterThrow

SpecShared == Init /\ [][NextShared]_vars

(***************************************************************************)
(* The store with listeners that act from inside their callbacks.          *)
(* notifyListeners is a loop: it calls one listener after the other, in    *)
(* the order of subscription, and a listener that is called may use the    *)
(* store before it returns.  The operations of the caller deliver their    *)
(* event by this loop; those of a listener deliver theirs at once.  l1 is  *)
(* never subscribed while l2 is, so that l1 comes before l2 in the set.    *)
(***************************************************************************)
BroadcastPaths == {<<"a">>, <<"b">>}

BroadcastValues == {Prim(2)}

\* for (const listener of listeners) listener(event): the listeners called
\* so far and the one that is running
NtfFrame(event) ==
  [k |-> "ntf", event |-> event, visited |-> {}, cur |-> "none"]

\* the store st, reached by an operation, has an event to deliver
Announces(st) ==
  \E l \in listeners : Len(st.delivered[l]) > Len(delivered[l])

AnnouncedEvent(st) ==
  LET l == CHOOSE m \in listeners : Len(st.delivered[m]) > Len(delivered[m])
  IN st.delivered[l][Len(st.delivered[l])]

\* the operation is done up to its call of notifyListeners, which is its
\* last statement; stk is the stack without a frame the operation has left
InstallAndNotify(st, stk) ==
  /\ Install([st EXCEPT !.delivered = delivered])
  /\ stack' = IF Announces(st) THEN Append(stk, NtfFrame(AnnouncedEvent(st)))
              ELSE stk

\* the listener the loop calls next: the first in the set that it has not
\* called
NextListener ==
  IF "l1" \in listeners \ Top.visited THEN "l1"
  ELSE IF "l2" \in listeners \ Top.visited THEN "l2"
  ELSE "none"

InLoop == stack # <<>> /\ Top.k = "ntf" /\ Top.cur = "none"

\* the caller, outside every call, or its updater
CallerItself == stack = <<>> \/ (InUpdater /\ Len(stack) = 1)

GetNotifying(path) ==
  /\ CallerItself /\ nops < MaxOps
  /\ LET o == get(makeInitAware(Cur), path) IN
       /\ InstallAndNotify(o.st, stack)
       /\ lastResult' = Result("get", path, o.res, o.val)
  /\ nops' = nops + 1
  /\ UNCHANGED <<txPre, initialState>>

SetNotifying(path, value) ==
  /\ stack = <<>> /\ nops < MaxOps
  /\ LET o == runWriter(makeInitAware(Cur), Write("set", path, value)) IN
       /\ InstallAndNotify(o.st, stack)
       /\ lastResult' = Result("set", path, o.res, value)
  /\ nops' = nops + 1
  /\ UNCHANGED <<txPre, initialState>>

UpdateByCaller(path) == stack = <<>> /\ Update(path)

UpdaterReturnNotifying(updatedValue) ==
  /\ InUpdater /\ Len(stack) = 1
  /\ LET o == updateEnd(Cur, Top.path, Top.prev, Top.input, updatedValue) IN
       /\ InstallAndNotify(o.st, Pop)
       /\ lastResult' = Result("update", Top.path, o.res, updatedValue)
  /\ UNCHANGED <<txPre, initialState, nops>>

\* listener(event)
ListenerCalled ==
  /\ InLoop /\ NextListener # "none"
  /\ delivered' = [delivered EXCEPT ![NextListener] = Append(@, Top.event)]
  /\ stack' = [stack EXCEPT ![Len(stack)].visited = @ \cup {NextListener},
                            ![Len(stack)].cur = NextListener]
  /\ UNCHANGED <<state, heap, frozenClones, initialized, activeUpdate,
                 activeTransaction, transactionWrites, transactionEvents,
                 listeners, lastResult, txPre, initialState, nops,
                 canonicalPaths>>

\* the listener returns; the loop ends when no listener is left
ListenerReturns ==
  /\ InCallback
  /\ stack' = [stack EXCEPT ![Len(stack)].cur = "none"]
  /\ UNCHANGED <<state, heap, frozenClones, initialized, activeUpdate,
                 activeTransaction, transactionWrites, transactionEvents,
                 listeners, delivered, lastResult, txPre, initialState, nops,
                 canonicalPaths>>

LoopEnds ==
  /\ InLoop /\ NextListener = "none"
  /\ stack' = Pop
  /\ UNCHANGED <<state, heap, frozenClones, initialized, activeUpdate,
                 activeTransaction, transactionWrites, transactionEvents,
                 listeners, delivered, lastResult, txPre, initialState, nops,
                 canonicalPaths>>

\* the operations of a listener that is running, or of an updater it has
\* called
InListener == InCallback \/ (InUpdater /\ Len(stack) > 1)

\* subscribe(l): l1 is added only while l2 is not in the set
SubscribeInOrder(l, cost) ==
  /\ l = "l1" => "l2" \notin listeners
  /\ Subscribe(l, cost)

\* a listener subscribes, or unsubscribes, the other listener
SubscribeOther(l) == InCallback /\ l # Top.cur /\ SubscribeInOrder(l, 1)

UnsubscribeOther(l) == InCallback /\ l # Top.cur /\ Unsubscribe(l, 1)

\* createStore(x0) followed by get(path()): the store is initialized and
\* nobody has subscribed
InitBroadcast ==
  /\ canonicalPaths = Produced(Paths)
  /\ \E x0 \in InitialStates :
       LET h0 == [id \in ObjIds |-> IF id = "x" THEN x0 ELSE Undefined]
           st0 == [state |-> clone(h0, Ref("x")), heap |-> h0,
                   frozenClones |-> EmptyClones, initialized |-> FALSE,
                   activeUpdate |-> FALSE, activeTransaction |-> FALSE,
                   transactionWrites |-> <<>>, transactionEvents |-> <<>>,
                   listeners |-> {}, delivered |-> [l \in Listeners |-> <<>>]]
           o == get(makeInitAware(st0), <<>>)
       IN /\ state = o.st.state
          /\ heap = o.st.heap
          /\ frozenClones = o.st.frozenClones
          /\ initialized = o.st.initialized
          /\ activeUpdate = o.st.activeUpdate
          /\ activeTransaction = o.st.activeTransaction
          /\ transactionWrites = o.st.transactionWrites
          /\ transactionEvents = o.st.transactionEvents
          /\ listeners = o.st.listeners
          /\ delivered = o.st.delivered
          /\ initialState = x0
          /\ lastResult = Result("get", <<>>, o.res, o.val)
  /\ stack = <<>>
  /\ txPre = [state |-> Undefined, fc |-> EmptyClones]
  /\ nops = 0

NextBroadcast ==
  \/ \E l \in Listeners : stack = <<>> /\ SubscribeInOrder(l, 0)
  \/ \E l \in Listeners : stack = <<>> /\ Unsubscribe(l, 0)
  \/ \E path \in BroadcastPaths : GetNotifying(path)
  \/ \E path \in BroadcastPaths, value \in BroadcastValues :
       SetNotifying(path, value)
  \/ \E path \in BroadcastPaths : UpdateByCaller(path)
  \/ \E updatedValue \in BroadcastValues : UpdaterReturnNotifying(updatedValue)
  \/ ListenerCalled
  \/ ListenerReturns
  \/ LoopEnds
  \/ \E path \in BroadcastPaths : InListener /\ Get(path)
  \/ \E path \in BroadcastPaths, value \in BroadcastValues :
       InListener /\ Set(path, value)
  \/ \E path \in BroadcastPaths : InListener /\ Update(path)
  \/ \E updatedValue \in BroadcastValues :
       Len(stack) > 1 /\ UpdaterReturn(updatedValue)
  \/ UpdaterThrow
  \/ \E l \in Listeners : SubscribeOther(l)
  \/ \E l \in Listeners : UnsubscribeOther(l)

SpecBroadcast == InitBroadcast /\ [][NextBroadcast]_vars

(***************************************************************************)
(* The event predicates, applied by a listener to the event it was called  *)
(* with                                                                    *)
(***************************************************************************)
EventType ==
  [Init |-> "INIT", Get |-> "GET", Set |-> "SET", Update |-> "UPDATE",
   Remove |-> "REMOVE", Transaction |-> "TRANSACTION"]

isInitEvent(event) == event.type = EventType.Init

isGetEvent(event) == event.type = EventType.Get

isSetEvent(event) == event.type = EventType.Set

isUpdateEvent(event) == event.type = EventType.Update

isRemoveEvent(event) == event.type = EventType.Remove

\* a write predicate that leaves removals out
isSetOrUpdateEvent(event) ==
  event.type = EventType.Set \/ event.type = EventType.Update

isWriteEvent(event) ==
  \/ event.type = EventType.Set
  \/ event.type = EventType.Update
  \/ event.type = EventType.Remove

isCRUDEvent(event) ==
  \/ event.type = EventType.Get
  \/ event.type = EventType.Set
  \/ event.type = EventType.Update
  \/ event.type = EventType.Remove

isTransactionEvent(event) == event.type = EventType.Transaction

\* what each of the eight predicates answers for an event
Guards(event) ==
  [isInitEvent |-> isInitEvent(event),
   isGetEvent |-> isGetEvent(event),
   isSetEvent |-> isSetEvent(event),
   isUpdateEvent |-> isUpdateEvent(event),
   isRemoveEvent |-> isRemoveEvent(event),
   isWriteEvent |-> isWriteEvent(event),
   isCRUDEvent |-> isCRUDEvent(event),
   isTransactionEvent |-> isTransactionEvent(event)]

\* events in a transaction event
MaxEvents == 1

GuardPaths == {<<>>, <<"a">>, <<"a", "b">>}
GuardValues == {Prim(1), Prim(2)}

CRUDEvents ==
  {createGetEvent(p, v) : p \in GuardPaths, v \in GuardValues}
    \cup {createSetEvent(p, pv, v) :
            p \in GuardPaths, pv \in GuardValues \cup {Null},
            v \in GuardValues}
    \cup {createUpdateEvent(p, pv, v) :
            p \in GuardPaths, pv \in GuardValues, v \in GuardValues}
    \cup {createRemoveEvent(p, pv) : p \in GuardPaths, pv \in GuardValues}

StoreEvents ==
  {createInitEvent(s) : s \in GuardValues}
    \cup CRUDEvents
    \cup {createTransactionEvent(es) :
            es \in UNION {[1..n -> CRUDEvents] : n \in 0..MaxEvents}}

GuardResult(event, val) == [t |-> "guards", event |-> event, val |-> val]

\* the listener l applies the predicates to the event it was called with
Classify(l) ==
  /\ l \in listeners
  /\ delivered[l] # <<>>
  /\ LET event == Last(delivered[l]) IN
       lastResult' = Result("guards", <<>>, "ok",
                            GuardResult(event, Guards(event)))
  /\ UNCHANGED <<state, heap, frozenClones, initialized, activeUpdate,
                 activeTransaction, transactionWrites, transactionEvents,
                 listeners, delivered, stack, txPre, initialState, nops,
                 canonicalPaths>>

\* one listener has been called with one event; the store is left aside
InitGuards ==
  /\ canonicalPaths = EmptyPaths
  /\ heap = [id \in ObjIds |-> Undefined]
  /\ initialState = Prim(1)
  /\ state = Prim(1)
  /\ frozenClones = EmptyClones
  /\ initialized = TRUE
  /\ activeUpdate = FALSE
  /\ activeTransaction = FALSE
  /\ transactionWrites = <<>>
  /\ transactionEvents = <<>>
  /\ listeners = {"l1"}
  /\ \E event \in StoreEvents :
       delivered = [l \in Listeners |-> IF l = "l1" THEN <<event>> ELSE <<>>]
  /\ stack = <<>>
  /\ txPre = [state |-> Undefined, fc |-> EmptyClones]
  /\ nops = 0
  /\ lastResult = Result("none", <<>>, "ok", Undefined)

NextGuards == \E l \in Listeners : Classify(l)

SpecGuards == InitGuards /\ [][NextGuards]_vars

(***************************************************************************)
(* Shared vocabulary of the properties                                     *)
(***************************************************************************)
\* the engine is Idle: no callback is running and both flags are down
Idle == stack = <<>> /\ ~activeUpdate /\ ~activeTransaction

\* a value written without references: what deep equality compares
Plain(h, value) == cloneHelper(h, value)

Resolves(path) == getByPath(heap, state, path).t # "notfound"

\* what get(path) would return now
GetValue(path) == get(Cur, path).val

\* the step is a call of the access layer made by code outside the engine
Calls(op) == CallerRuns /\ nops' = nops + 1 /\ lastResult'.op = op

\* the step runs the deferred write w of the running transaction
RunsDeferred(op) ==
  InWrites /\ Top.next <= Top.n /\ transactionWrites[Top.next].op = op

(***************************************************************************)
(* C1  Read consistency: whenever the engine is Idle, for every path that  *)
(* resolves in the current state, get returns a value deeply equal to the  *)
(* value stored at that path.                                              *)
(***************************************************************************)
C1_ReadConsistency ==
  Idle =>
    \A path \in Paths :
      Resolves(path) =>
        GetValue(path) = Plain(heap, getByPath(heap, state, path))

\* the writes among the calls a transaction body has made
WriteCalls(calls) == SelectSeq(calls, LAMBDA c : c.op # "get")

RECURSIVE NoRefs(_)
NoRefs(value) ==
  /\ value.t # "ref"
  /\ isContainer(value) => \A k \in DOMAIN value.f : NoRefs(value.f[k])

\* the step is a mutation, by code outside the engine, of its object id
Mutates(id) ==
  nops' = nops + 1 /\ lastResult'.op = "mutate" /\ lastResult'.res = id

SameReads ==
  /\ Plain(heap', state') = Plain(heap, state)
  /\ \A path \in Paths : get(Cur', path).val = get(Cur, path).val

(***************************************************************************)
(* C2  Inward isolation: once a set(p, X) has been carried out, the value  *)
(* at p and get(p) deeply equal X as it was when set was called, and a     *)
(* later mutation by the caller of X (the object passed to set, returned   *)
(* by an updater or given to createStore) changes neither the canonical    *)
(* state nor the result of any get.                                        *)
(***************************************************************************)
C2_SetStoresArgument ==
  /\ (Calls("set") /\ lastResult'.res = "ok") =>
       LET p == lastResult'.path
           X == Plain(heap, lastResult'.val)
       IN /\ Plain(heap', getByPath(heap', state', p)) = X
          /\ get(Cur', p).val = X
  /\ (RunsDeferred("set") /\ lastResult'.res = "ok") =>
       LET p == transactionWrites[Top.next].path
           X == WriteCalls(Top.calls)[Top.next].arg
       IN /\ Plain(heap', getByPath(heap', state', p)) = X
          /\ get(Cur', p).val = X

C2_InwardIsolation ==
  [][C2_SetStoresArgument /\ (Mutates("x") => SameReads)]_vars

(***************************************************************************)
(* C3  When the updater of update(p, f) returns, the value stored at p is  *)
(* deeply equal to f's return value if that is not undefined and to f's    *)
(* input, as f left it, otherwise; the stored object is not the object f   *)
(* was handed (the state holds no reference to an object of the caller),   *)
(* so mutating that object once update has returned changes no read.       *)
(***************************************************************************)
UpdaterReturns ==
  InUpdater /\ nops' = nops /\ lastResult'.op = "update" /\ lastResult'.res = "ok"

C3_UpdateStoresACopy ==
  [][ /\ UpdaterReturns =>
           /\ Plain(heap', getByPath(heap', state', Top.path))
                = Plain(heap, IF lastResult'.val.t # "undefined"
                              THEN lastResult'.val ELSE Top.input)
           /\ NoRefs(state')
      /\ (Mutates("inp") /\ ~activeUpdate) => SameReads ]_vars

\* an update has returned and its caller has then mutated the updater's input
C3_Witness ==
  /\ stack = <<>> /\ ~activeUpdate
  /\ lastResult.op = "mutate" /\ lastResult.res = "inp"

(***************************************************************************)
(* C4  remove(p), when the remove handler runs: at the root it raises      *)
(* CannotRemoveRoot; at a non-root path whose key does not exist in its    *)
(* parent it raises PathNotFound; at an existing non-root path it deletes  *)
(* the key, so that get(p) then raises PathNotFound, and emits a Remove    *)
(* event carrying the removed value.                                       *)
(***************************************************************************)
RemoveRuns ==
  \/ Calls("remove") /\ ~activeTransaction /\ ~activeUpdate
  \/ RunsDeferred("remove") /\ ~activeUpdate

C4_Remove ==
  [][ RemoveRuns =>
        LET p == IF InWrites THEN transactionWrites[Top.next].path
                 ELSE lastResult'.path
            container == Deref(heap, getContainer(heap, state, p))
            event == createRemoveEvent(p, Plain(heap, getByPath(heap, state, p)))
        IN
        /\ Len(p) = 0 =>
             lastResult'.res = "CannotRemoveRoot" /\ state' = state
        /\ (Len(p) > 0 /\ ~hasOwnProperty(container, Last(p))) =>
             lastResult'.res = "PathNotFound" /\ state' = state
        /\ (Len(p) > 0 /\ Resolves(p)) =>
             /\ lastResult'.res = "ok"
             /\ get(Cur', p).res = "PathNotFound"
             /\ IF activeTransaction
                THEN transactionEvents' = Append(transactionEvents, event)
                ELSE \A l \in listeners :
                       /\ Len(delivered'[l]) > Len(delivered[l])
                       /\ Last(delivered'[l]) = event ]_vars

\* a transaction has been entered and not yet left
TxOpen == \E i \in 1..Len(stack) : stack[i].k = "tx"

\* the step is the normal completion of transaction()
TxCompletes ==
  InWrites /\ lastResult'.op = "transaction" /\ lastResult'.res = "ok"

\* the events the step delivers to listener l
NewEvents(l) ==
  SubSeq(delivered'[l], Len(delivered[l]) + 1, Len(delivered'[l]))

EventTypeOf(op) ==
  CASE op = "get" -> "GET" [] op = "set" -> "SET"
    [] op = "update" -> "UPDATE" [] op = "remove" -> "REMOVE"

\* the operation and the path of each entry of a log
OpPaths(log) == [i \in 1..Len(log) |-> <<log[i].op, log[i].path>>]

(***************************************************************************)
(* C5  Atomicity towards subscribers: a transaction that completes         *)
(* broadcasts exactly one Transaction event, at its completion, when the   *)
(* body has returned and every write the body deferred has run; between    *)
(* the entry of transaction() and that broadcast nothing is delivered to   *)
(* any listener; and a Transaction event is delivered at no other step.    *)
(***************************************************************************)
C5_TransactionAtomicBroadcast ==
  [][ /\ TxOpen =>
           IF TxCompletes
           THEN /\ Len(Top.done) = Top.n
                /\ \A l \in Listeners :
                     delivered'[l] =
                       IF l \in listeners
                       THEN Append(delivered[l],
                                   createTransactionEvent(transactionEvents))
                       ELSE delivered[l]
           ELSE delivered' = delivered
      /\ ~TxCompletes =>
           \A l \in Listeners :
             \A i \in 1..Len(NewEvents(l)) :
               NewEvents(l)[i].type # "TRANSACTION" ]_vars

\* a listener has been handed the Transaction event of a completed transaction
\* in which CRUD operations took place
C5_Witness ==
  /\ lastResult.op = "transaction" /\ lastResult.res = "ok"
  /\ \E l \in listeners :
       /\ delivered[l] # <<>>
       /\ Last(delivered[l]).type = "TRANSACTION"
       /\ Last(delivered[l]).events # <<>>

(***************************************************************************)
(* C6  As stated: the events of a Transaction event are, one for one and   *)
(* in the same order, the CRUD operations the body invoked.                *)
(***************************************************************************)
C6_EventsInCallOrder ==
  [][ TxCompletes =>
        /\ Len(transactionEvents) = Len(Top.calls)
        /\ \A i \in 1..Len(Top.calls) :
             /\ transactionEvents[i].type = EventTypeOf(Top.calls[i].op)
             /\ transactionEvents[i].path = Top.calls[i].path ]_vars

(***************************************************************************)
(* C6  As the code has it: the events of a Transaction event start with    *)
(* one Get event per get of the body that returned, in call order; the     *)
(* events after those, the Get events of gets made by updaters left aside, *)
(* are one Set, Update or Remove event per write the body issued, in the   *)
(* order in which the body issued them.                                    *)
(***************************************************************************)
C6_ReadsThenWrites ==
  [][ TxCompletes =>
        LET gets == SelectSeq(Top.calls, LAMBDA c : c.op = "get" /\ c.ok)
            writes == WriteCalls(Top.calls)
            events == transactionEvents
        IN
        /\ Len(events) >= Len(gets)
        /\ \A i \in 1..Len(gets) :
             events[i].type = "GET" /\ events[i].path = gets[i].path
        /\ LET rest == SelectSeq(SubSeq(events, Len(gets) + 1, Len(events)),
                                 LAMBDA e : e.type # "GET")
           IN /\ Len(rest) = Len(writes)
              /\ \A i \in 1..Len(writes) :
                   /\ rest[i].type = EventTypeOf(writes[i].op)
                   /\ rest[i].path = writes[i].path ]_vars

\* the body of a transaction wrote first and read afterwards, and the
\* transaction is about to complete
C6_Witness ==
  /\ InWrites /\ Top.next > Top.n
  /\ Len(Top.calls) = 2
  /\ Top.calls[1].op # "get" /\ Top.calls[2].op = "get" /\ Top.calls[2].ok
  /\ Len(transactionEvents) = 2
  /\ transactionEvents[1].type = "GET"

\* the state a sequence of executed writes leads to
RECURSIVE FoldWrites(_, _, _)
FoldWrites(h, value, done) ==
  IF done = <<>> THEN value
  ELSE LET w == Head(done)
           next == IF w.op = "remove" THEN deleteIn(h, value, w.path)
                   ELSE setIn(h, value, w.path, w.value)
       IN FoldWrites(h, next, Tail(done))

(***************************************************************************)
(* C7  Deferred writes: while the body of a transaction runs, the state    *)
(* does not change and a get returns what it would have returned when the  *)
(* transaction was entered; when the body returns, the queue holds the     *)
(* writes the body issued, in issue order; when the transaction completes, *)
(* each of them has been executed once, in that order, and the state is    *)
(* the pre-transaction state with those writes applied in that order.      *)
(***************************************************************************)
C7_DeferredWrites ==
  [][ /\ InBody =>
           /\ Plain(heap', state') = txPre.state
           /\ Len(stack') = Len(stack) =>
                OpPaths(transactionWrites')
                  = OpPaths(WriteCalls(stack'[Len(stack)].calls))
           /\ (Calls("get") /\ lastResult'.res = "ok") =>
                lastResult'.val =
                  get([Cur EXCEPT !.state = txPre.state,
                                  !.frozenClones = txPre.fc],
                      lastResult'.path).val
      /\ TxCompletes =>
           /\ OpPaths(Top.done) = OpPaths(WriteCalls(Top.calls))
           /\ state = FoldWrites(heap, txPre.state, Top.done) ]_vars

\* two writes deferred by the body of a transaction have been executed and
\* have changed the state
C7_Witness ==
  /\ InWrites /\ Top.next > Top.n
  /\ Top.n = 2 /\ Len(Top.done) = 2
  /\ state # txPre.state

(***************************************************************************)
(* C8  A transaction is atomic on the state: when transaction() is left by *)
(* an exception, raised by the body or by a deferred write, the state is   *)
(* the pre-transaction state.                                              *)
(***************************************************************************)
C8_AtomicOnFailure ==
  [][ (TxOpen /\ stack' = <<>> /\ ~TxCompletes) =>
        Plain(heap', state') = txPre.state ]_vars

AccessOps == {"get", "set", "update", "remove", "transaction"}

\* the step is a call of an operation of the access layer
AccessCall == nops' = nops + 1 /\ lastResult'.op \in AccessOps

UpdaterOutsideTx == InUpdater /\ Len(stack) = 1

\* the step is the updater throwing
UpdaterThrows ==
  InUpdater /\ nops' = nops /\ lastResult'.op = "update"
    /\ lastResult'.res = "UpdaterError"

(***************************************************************************)
(* C11  While the updater of an update issued outside any transaction is   *)
(* executing, a set, update or remove raises NestedWriteForbidden and is   *)
(* not applied: the state is unchanged and nothing is queued.              *)
(***************************************************************************)
C11_NestedWriteForbidden ==
  [][ (UpdaterOutsideTx /\ (Calls("set") \/ Calls("update") \/ Calls("remove")))
        => /\ lastResult'.res = "NestedWriteForbidden"
           /\ state' = state /\ heap' = heap
           /\ transactionWrites' = transactionWrites
           /\ stack' = stack ]_vars

\* a write issued from inside an updater has been rejected
C11_Witness ==
  /\ UpdaterOutsideTx
  /\ lastResult.op \in {"set", "update", "remove"}
  /\ lastResult.res = "NestedWriteForbidden"

(***************************************************************************)
(* C12  transaction() called from the body of a running transaction raises *)
(* ConcurrentTransactionForbidden, and called from an executing updater    *)
(* raises TransactionDuringUpdateForbidden; in both cases no body is run   *)
(* and neither the flags nor the state change.                             *)
(***************************************************************************)
C12_TransactionRejected ==
  [][ (Calls("transaction") /\ stack # <<>>) =>
        /\ lastResult'.res = IF InUpdater
                             THEN "TransactionDuringUpdateForbidden"
                             ELSE "ConcurrentTransactionForbidden"
        /\ stack' = stack
        /\ state' = state
        /\ activeTransaction' = activeTransaction
        /\ activeUpdate' = activeUpdate
        /\ transactionWrites' = transactionWrites
        /\ transactionEvents' = transactionEvents ]_vars

\* the body of a transaction has called transaction() and been refused
C12_Witness ==
  /\ InBody
  /\ lastResult.op = "transaction"
  /\ lastResult.res = "ConcurrentTransactionForbidden"

(***************************************************************************)
(* C13  Cleanup of the update flag: when an updater throws, update() is    *)
(* left with activeUpdate false, so that canMutateSubscriptions() is true  *)
(* once the error has propagated to an idle caller.                        *)
(***************************************************************************)
C13_UpdateFlagCleanup ==
  [][ UpdaterThrows =>
        /\ ~activeUpdate'
        /\ (stack' = <<>> /\ ~activeTransaction') =>
             canMutateSubscriptions(Cur') ]_vars

CrudOps == {"get", "set", "update", "remove"}

\* the step is a call of get, set, update or remove that raises at once
CrudRaises ==
  /\ CallerRuns /\ nops' = nops + 1
  /\ lastResult'.op \in CrudOps
  /\ lastResult'.res \notin {"ok", "deferred", "running"}

(***************************************************************************)
(* C14  No operation partially applies on failure (state): when a call of  *)
(* get, set, update or remove raises, at once or because its updater       *)
(* throws, the state and the result of get on every path are what they     *)
(* were before the call.                                                   *)
(***************************************************************************)
C14_NoPartialState ==
  [][ /\ CrudRaises => SameReads
      /\ UpdaterThrows => Plain(heap', state') = Top.pre ]_vars

(***************************************************************************)
(* C15  No operation partially applies on failure (events): a call of the  *)
(* access layer that raises delivers no event to any listener, also when   *)
(* it is the first operation on the store.                                 *)
(***************************************************************************)
C15_NoEventOnFailure ==
  [][ (CrudRaises \/ UpdaterThrows
         \/ (Calls("transaction") /\ lastResult'.res # "running"))
        => delivered' = delivered ]_vars

\* an update or a transaction is in progress: its frame is on the stack
UpdateOrTransactionRuns == stack # <<>>

\* the step is a call of subscribe or of an unsubscribe function
SubscriptionCall ==
  CallerRuns /\ nops' = nops + 1
    /\ lastResult'.op \in {"subscribe", "unsubscribe"}

(***************************************************************************)
(* C16  canMutateSubscriptions() is true exactly when neither an update    *)
(* nor a transaction is in progress; a call of subscribe or unsubscribe    *)
(* raises SubscriptionMutationForbidden exactly when it is false, and then *)
(* the set of listeners is unchanged; otherwise the call succeeds and      *)
(* changes the set by at most the one listener.                            *)
(***************************************************************************)
C16_SubscriptionGuard ==
  /\ [](canMutateSubscriptions(Cur) <=> ~UpdateOrTransactionRuns)
  /\ [][ SubscriptionCall =>
           IF canMutateSubscriptions(Cur)
           THEN /\ lastResult'.res = "ok"
                /\ \E l \in Listeners :
                     listeners' = IF lastResult'.op = "subscribe"
                                  THEN listeners \cup {l}
                                  ELSE listeners \ {l}
           ELSE /\ lastResult'.res = "SubscriptionMutationForbidden"
                /\ listeners' = listeners ]_vars

\* the types of the events of a log
EventTypes(log) == [i \in 1..Len(log) |-> log[i].type]

\* the types of the events the step broadcasts: Init at the first operation,
\* then the event of a read or a write that completes outside a transaction,
\* or the Transaction event of a transaction that completes
Broadcast ==
  (IF ~initialized /\ initialized' THEN <<"INIT">> ELSE <<>>)
  \o (IF activeTransaction
      THEN IF TxCompletes THEN <<"TRANSACTION">> ELSE <<>>
      ELSE IF /\ CallerRuns /\ nops' = nops + 1
              /\ lastResult'.op \in {"get", "set", "remove"}
              /\ lastResult'.res = "ok"
      THEN <<EventTypeOf(lastResult'.op)>>
      ELSE IF UpdaterReturns THEN <<"UPDATE">>
      ELSE <<>>)

(***************************************************************************)
(* C17  A listener that is subscribed receives every event the engine      *)
(* broadcasts (Init, Get, Set, Update, Remove, Transaction); a listener    *)
(* that is not subscribed (it never was, or its unsubscribe has returned)  *)
(* receives nothing, whatever the operation, while the subscribed ones     *)
(* keep receiving; and the set of subscribed listeners changes only by a   *)
(* call of subscribe or unsubscribe that succeeds.                         *)
(***************************************************************************)
C17_Delivery ==
  [][ /\ \A l \in listeners : EventTypes(NewEvents(l)) = Broadcast
      /\ \A l \in Listeners \ listeners : delivered'[l] = delivered[l]
      /\ listeners' # listeners =>
           /\ lastResult'.op \in {"subscribe", "unsubscribe"}
           /\ lastResult'.res = "ok" ]_vars

\* l1 has unsubscribed after receiving events and has received nothing
\* since, while l2 has gone on receiving
C17_Witness ==
  /\ "l1" \notin listeners /\ "l2" \in listeners
  /\ delivered["l1"] # <<>>
  /\ Len(delivered["l2"]) > Len(delivered["l1"])
  /\ EventTypes(delivered["l1"]) = <<"INIT", "GET">>
  /\ EventTypes(delivered["l2"]) = <<"INIT", "GET", "SET", "TRANSACTION">>

\* the CRUD events of a log
CrudEvents(log) ==
  SelectSeq(log, LAMBDA e : e.type \in {"GET", "SET", "UPDATE", "REMOVE"})

(***************************************************************************)
(* C18  A call of get, set, update or remove with a path that is not the   *)
(* canonical instance of the store's path factory raises InvalidPath,      *)
(* changes neither the state nor the queue of deferred writes, and         *)
(* generates no CRUD event, delivered or buffered.                         *)
(***************************************************************************)
C18_InvalidPath ==
  [][ RawCall =>
        /\ lastResult'.res = "InvalidPath"
        /\ state' = state /\ heap' = heap
        /\ transactionWrites' = transactionWrites
        /\ transactionEvents' = transactionEvents
        /\ \A l \in Listeners : CrudEvents(NewEvents(l)) = <<>> ]_vars

\* the object id of code outside the engine is part of value: value is a
\* reference to it or holds one, directly or through another object
RECURSIVE Holds(_, _)
Holds(value, id) ==
  \/ value.t = "ref" /\ (value.id = id \/ Holds(heap[value.id], id))
  \/ isContainer(value) /\ \E k \in DOMAIN value.f : Holds(value.f[k], id)

(***************************************************************************)
(* C19  Outward isolation: the object a get has returned is never part of  *)
(* the canonical state, here even leaving aside the time during which an   *)
(* updater runs.                                                           *)
(***************************************************************************)
C19_OutwardIsolation == stack = <<>> => ~Holds(state, "g")

(***************************************************************************)
(* C20  Structural sharing, whenever the engine is Idle: a get of a        *)
(* container leaves its result in the read cache under the path, a second  *)
(* get of the same path returns that entry, and a get of a child that      *)
(* follows, with no write in between, returns the very value the parent's  *)
(* result has under the child's key.                                       *)
(***************************************************************************)
C20_StructuralSharing ==
  Idle =>
    \A p \in Paths :
      LET o1 == get(Cur, p) IN
      (o1.res = "ok" /\ isContainer(o1.val)) =>
        /\ o1.st.frozenClones[String(p)] = o1.val
        /\ get(o1.st, p).val = o1.val
        /\ \A k \in Keys :
             LET o2 == get(o1.st, Append(p, k)) IN
             (o2.res = "ok" /\ isContainer(o2.val)) =>
               /\ k \in DOMAIN o1.val.f
               /\ o1.val.f[k] = o2.val

\* the events the step generates: buffered by the running transaction or
\* delivered to a listener
Generated ==
  { transactionEvents'[i] :
      i \in (Len(transactionEvents) + 1)..Len(transactionEvents') }
  \cup UNION { { NewEvents(l)[i] : i \in 1..Len(NewEvents(l)) } :
               l \in Listeners }

\* the value stored at path in state s, without references; Null when
\* there is none
StoredAt(h, s, path) ==
  LET found == getByPath(h, s, path) IN
  IF found.t = "notfound" THEN Null ELSE Plain(h, found)

(***************************************************************************)
(* C21  Event payloads describe the write they report: a Set event carries *)
(* the path, the value stored there before the set (null when there was    *)
(* none) and the value stored there after it; an Update event carries the  *)
(* path, the value stored when update was called and the value stored when *)
(* it returns; a Remove event carries the path and the value removed.      *)
(***************************************************************************)
C21_EventPayloads ==
  [][ \A e \in Generated :
        /\ e.type = "SET" =>
             /\ e.path = lastResult'.path
             /\ e.prevValue = StoredAt(heap, state, e.path)
             /\ e.value = StoredAt(heap', state', e.path)
        /\ e.type = "UPDATE" =>
             /\ InUpdater /\ e.path = Top.path
             /\ e.prevValue = StoredAt(heap, Top.pre, e.path)
             /\ e.value = StoredAt(heap', state', e.path)
        /\ e.type = "REMOVE" =>
             /\ e.path = lastResult'.path
             /\ e.prevValue = StoredAt(heap, state, e.path) ]_vars

(***************************************************************************)
(* C22  Every successful get generates exactly one Get event, carrying the *)
(* path and the value returned: while a transaction is open the event is   *)
(* appended to the transaction's buffer and nothing is delivered;          *)
(* otherwise nothing is buffered and the event is delivered to every       *)
(* subscribed listener within the call.                                    *)
(***************************************************************************)
C22_GetEvent ==
  [][ (Calls("get") /\ lastResult'.res = "ok") =>
        LET e == createGetEvent(lastResult'.path, lastResult'.val) IN
        IF TxOpen
        THEN /\ transactionEvents' = Append(transactionEvents, e)
             /\ \A l \in Listeners : CrudEvents(NewEvents(l)) = <<>>
        ELSE /\ transactionEvents' = transactionEvents
             /\ \A l \in listeners : CrudEvents(NewEvents(l)) = <<e>> ]_vars

\* the value an event log describes: each Set and Update event puts its
\* value at its path, each Remove event deletes its path, a Transaction
\* event stands for the events it holds; an event whose path has no
\* container to work on changes nothing
RECURSIVE ApplyEvents(_, _)
ApplyEvents(value, log) ==
  IF log = <<>> THEN value
  ELSE LET e == Head(log)
           applies == /\ e.type \in {"SET", "UPDATE", "REMOVE"}
                      /\ Len(e.path) > 0 =>
                           isContainer(getByPath(heap, value, Front(e.path)))
           next == IF e.type = "TRANSACTION" THEN ApplyEvents(value, e.events)
                   ELSE IF ~applies THEN value
                   ELSE IF e.type = "REMOVE"
                   THEN (IF Len(e.path) = 0 THEN value
                         ELSE deleteIn(heap, value, e.path))
                   ELSE setIn(heap, value, e.path, e.value)
       IN ApplyEvents(next, Tail(log))

\* the listener has followed the store from its first operation
FollowsFromInit(l) ==
  l \in listeners /\ delivered[l] # <<>> /\ delivered[l][1].type = "INIT"

(***************************************************************************)
(* C23  The event stream is complete for mutations: whenever the engine is *)
(* Idle, the state equals the one rebuilt from the events received by a    *)
(* listener subscribed since before the first operation, starting from the *)
(* state of the Init event.                                                *)
(***************************************************************************)
C23_EventSourcing ==
  Idle =>
    \A l \in Listeners :
      FollowsFromInit(l) =>
        ApplyEvents(delivered[l][1].state, Tail(delivered[l]))
          = Plain(heap, state)

\* the sequences of n keys at most
KeySeqs(n) == UNION {[1..i -> Keys] : i \in 0..n}

\* what the lineage of path is to be when value is stored there: the
\* prefixes of path, and path followed by every sequence of keys that leads
\* somewhere in a container value
LineageOf(path, value) ==
  {q \in KeySeqs(Len(path)) : q = SubSeq(path, 1, Len(q))}
  \cup {path \o s : s \in {r \in KeySeqs(MaxDepth) :
                            /\ r # <<>>
                            /\ isContainer(value)
                            /\ getByPath(heap, value, r).t # "notfound"}}

(***************************************************************************)
(* C24  computePathLineage(p, v) is exactly the set of the strict prefixes *)
(* of p, p itself and, when v is a container, every path p+k1..kn that     *)
(* walking the keys of v reaches; for any other v, the prefixes and p.     *)
(***************************************************************************)
C24_PathLineage ==
  lastResult.op = "computePathLineage" =>
    lastResult.val.paths = LineageOf(lastResult.path, heap["x"])

\* the lineage of a path of two keys holding a container of containers
C24_Witness ==
  /\ lastResult.op = "computePathLineage"
  /\ lastResult.path = <<"a", "b">>
  /\ <<"a", "b", "b", "a">> \in lastResult.val.paths
  /\ <<"a">> \in lastResult.val.paths
  /\ <<"a", "b", "a">> \notin lastResult.val.paths

\* the step is a call of path
PathCalled == nops' = nops + 1 /\ lastResult'.op = "path"

(***************************************************************************)
(* C25  Path canonicalization: a call of path returns the array stored     *)
(* under the string of its flattened keys, and no stored array is ever     *)
(* replaced, so two calls with the same flattened keys, bare or spliced,   *)
(* return the same object; fromFactory(x) is true exactly when x is a      *)
(* stored array, and false for another array with the same keys.           *)
(***************************************************************************)
C25_Canonical ==
  [][ /\ \A k \in DOMAIN canonicalPaths :
           k \in DOMAIN canonicalPaths' /\ canonicalPaths'[k] = canonicalPaths[k]
      /\ PathCalled =>
           /\ lastResult'.val.obj = canonicalPaths'[String(lastResult'.path)]
           /\ (lastResult.op = "path" /\ lastResult.path = lastResult'.path)
                => lastResult'.val.obj.id = lastResult.val.obj.id
      /\ lastResult'.op = "fromFactory" =>
           (lastResult'.val.v <=>
              \E p \in Stored(canonicalPaths) : p.id = lastResult'.val.obj.id)
    ]_vars

\* path(path('a','b'), 'a') has returned the array that an earlier call with
\* bare keys created
C25_Witness ==
  /\ lastResult.op = "path"
  /\ Len(lastResult.val.parts) = 2
  /\ "keys" \in DOMAIN lastResult.val.parts[1]
  /\ lastResult.path = <<"a", "b", "a">>
  /\ lastResult.val.obj.id < nops

(***************************************************************************)
(* C26  path(k1, ..., kn) returns a sequence whose elements are exactly    *)
(* the keys supplied, in order, spliced paths flattened, whatever the      *)
(* factory has produced before.                                            *)
(***************************************************************************)
C26_PathKeys ==
  lastResult.op = "path" => lastResult.val.obj.keys = lastResult.path

\* what a value is on the spot: a primitive, or a container with its keys
Shape(h, value) ==
  LET v == Deref(h, value) IN
  IF isContainer(v) THEN [t |-> "rec", keys |-> DOMAIN v.f] ELSE v

\* deep equality of two acyclic values of depth MaxCloneDepth at most: the
\* same keys lead to the same primitives and to containers with the same keys
DeepEqual(h, v, w) ==
  \A p \in KeySeqs(MaxCloneDepth) :
    Shape(h, getByPath(h, v, p)) = Shape(h, getByPath(h, w, p))

(***************************************************************************)
(* C27  For every value in which no object can be reached twice, clone     *)
(* returns a value that is deeply equal to it and shares no container with *)
(* it; a primitive is returned as it is.                                   *)
(***************************************************************************)
C27_CloneFidelity ==
  (lastResult.op = "clone" /\ ~repeatedReference(heap, lastResult.val.arg)) =>
     LET arg == lastResult.val.arg
         val == lastResult.val.val
     IN /\ lastResult.res = "ok"
        /\ DeepEqual(heap, arg, val)
        /\ NoRefs(val)
        /\ isPrimitive(arg) => val = arg

\* clone(x) with x = {a: inp, ...} and inp a container of two keys: a value
\* of three levels that holds an object of the caller below its root
C27_Witness ==
  /\ lastResult.op = "clone" /\ lastResult.res = "ok"
  /\ lastResult.val.arg = Ref("x")
  /\ isContainer(heap["x"]) /\ hasOwnProperty(heap["x"], "a")
  /\ heap["x"].f["a"] = Ref("inp")
  /\ DOMAIN heap["inp"].f = Keys

(***************************************************************************)
(* C28  clone raises ReferenceCycle for a value in which an object can be  *)
(* reached more than once, so that, createStore, set and update rejecting  *)
(* such a value, the state never holds an object that can be reached by    *)
(* two different paths.                                                    *)
(***************************************************************************)
C28_ReferenceAgnostic == stack = <<>> => ~repeatedReference(heap, state)

WriteOps == {"set", "update", "remove"}

\* the error a write has when it is carried out in the present state
\* ("none": no error among those of the claim)
ExpectedError(op, path) ==
  LET container == Deref(heap, getByPath(heap, state, Front(path))) IN
  IF activeUpdate THEN "NestedWriteForbidden"
  ELSE IF path = <<>>
  THEN (IF op = "remove" THEN "CannotRemoveRoot" ELSE "none")
  ELSE IF container.t = "notfound" THEN "PathNotFound"
  ELSE IF op # "set" /\ isContainer(container)
             /\ ~hasOwnProperty(container, Last(path))
  THEN "PathNotFound"
  ELSE "none"

C30_MutuallyExclusive == ~(activeUpdate /\ activeTransaction)

(***************************************************************************)
(* C30, amended: activeUpdate and activeTransaction come to be both true   *)
(* by one step only, that of transaction() running an update its body had  *)
(* queued; a transaction never starts while activeUpdate is true, and an   *)
(* update called while activeTransaction is true leaves activeUpdate as it *)
(* is.                                                                     *)
(***************************************************************************)
C30_ExclusiveButDeferred ==
  [][ /\ (activeUpdate' /\ activeTransaction'
            /\ ~(activeUpdate /\ activeTransaction))
           => /\ RunsDeferred("update")
              /\ ~activeUpdate /\ activeTransaction
      /\ (Calls("transaction") /\ activeUpdate)
           => /\ lastResult'.res = "TransactionDuringUpdateForbidden"
              /\ activeTransaction' = activeTransaction
      /\ (Calls("update") /\ activeTransaction)
           => /\ lastResult'.res = "deferred"
              /\ activeUpdate' = activeUpdate
    ]_vars

\* the updater of a queued update is running: both flags are true
C30_Witness ==
  /\ activeUpdate /\ activeTransaction
  /\ InUpdater /\ Len(stack) = 2
  /\ stack[1].k = "tx" /\ stack[1].ph = "writes"

\* the updater of an update that a transaction had queued is running
UpdaterOfDeferred == InUpdater /\ Len(stack) = 2 /\ stack[1].k = "tx"

(***************************************************************************)
(* C31  While an update runs as a deferred write of a transaction, a set,  *)
(* update or remove issued by its updater fails with NestedWriteForbidden: *)
(* it is never accepted and then discarded.                                *)
(***************************************************************************)
C31_NestedInDeferred ==
  [][ \A op \in WriteOps :
        (UpdaterOfDeferred /\ Calls(op))
          => /\ lastResult'.res = "NestedWriteForbidden"
             /\ transactionWrites' = transactionWrites ]_vars

\* what the update in progress comes to when its updater returns
\* updatedValue at once, the engine being as in st
OutcomeOfUpdate(st, updatedValue) ==
  updateEnd(st, Top.path, Top.prev, Top.input, updatedValue)

\* the results of every get after the update; at the path of the update the
\* result is the value that the Update event carries
ReadsAfter(o) == [q \in Paths |-> get(o.st, q).val]

(***************************************************************************)
(* C32  A get issued by an updater succeeds and does not interfere with the*)
(* update: whatever the updater returns after it, the value stored and the *)
(* results of the gets that follow the update (the value of the Update     *)
(* event among them) are what they would be had the get not been issued.   *)
(***************************************************************************)
C32_ReadsDoNotInterfere ==
  [][ (InUpdater /\ Calls("get") /\ Resolves(lastResult'.path)) =>
        /\ lastResult'.res = "ok"
        /\ \A updatedValue \in UpdaterResults :
             LET without == OutcomeOfUpdate(Cur, updatedValue)
                 with == OutcomeOfUpdate(Cur', updatedValue)
             IN without.res = "ok" =>
                  /\ with.res = "ok"
                  /\ with.st.state = without.st.state
                  /\ ReadsAfter(with) = ReadsAfter(without)
    ]_vars

\* the step completes a write: a set or a remove that is carried out, or an
\* update whose updater has returned
WriteCompletes ==
  /\ lastResult'.op \in WriteOps /\ lastResult'.res = "ok"
  /\ \/ Calls(lastResult'.op)
     \/ RunsDeferred(lastResult'.op)
     \/ InUpdater

\* paths is free of clones made before the step: a clone there is one of the
\* value now stored
FreshAt(paths) ==
  \A q \in paths :
    String(q) \in DOMAIN frozenClones'
      => frozenClones'[String(q)] = StoredAt(heap', state', q)

(***************************************************************************)
(* C33  After a successful set, update or remove at a path other than the  *)
(* root, the read cache holds no clone made before the write for the path, *)
(* for any strict prefix of it, the root included, or for any path below   *)
(* it, whether or not the key existed before; after a set or update of the *)
(* root it holds no clone made before the write at all.                    *)
(***************************************************************************)
C33_CacheReconciled ==
  [][ WriteCompletes =>
        LET p == lastResult'.path IN
        /\ \A q \in computeAncestorPaths(p) :
             String(q) \in DOMAIN frozenClones
               => String(q) \notin DOMAIN frozenClones'
        /\ FreshAt({q \in KeySeqs(MaxPathLen + 1) :
                      Len(q) >= Len(p) /\ SubSeq(q, 1, Len(p)) = p})
    ]_vars

\* q is on the line of p: a prefix of p, p, or a path below p
OnLine(p, q) ==
  LET n == IF Len(p) < Len(q) THEN Len(p) ELSE Len(q) IN
  SubSeq(p, 1, n) = SubSeq(q, 1, n)

Notifying == \E i \in 1..Len(stack) : stack[i].k = "ntf"

(***************************************************************************)
(* C35  While notifyListeners goes through the listeners to deliver an     *)
(* event, the set of listeners does not change: a subscribe or unsubscribe *)
(* that a listener attempts from inside its callback is rejected.          *)
(***************************************************************************)
C35_ListenerSetIntegrity ==
  [][ Notifying =>
        /\ listeners' = listeners
        /\ (InCallback /\ SubscriptionCall) => lastResult'.res # "ok"
    ]_vars

\* s is a suffix of t
IsSuffix(s, t) ==
  Len(s) <= Len(t) /\ SubSeq(t, Len(t) - Len(s) + 1, Len(t)) = s

(***************************************************************************)
(* C38  All listeners observe the same order of events: once no call is in *)
(* progress, of two listeners that are subscribed the events delivered to  *)
(* the one are the last events delivered to the other, also when a         *)
(* listener uses the store from inside its callback.                       *)
(***************************************************************************)
C38_SameOrder ==
  stack = <<>> =>
    \A l, m \in listeners :
      IsSuffix(delivered[l], delivered[m]) \/ IsSuffix(delivered[m], delivered[l])

WriteEventTypes == {"SET", "UPDATE", "REMOVE", "TRANSACTION"}

\* notifyListeners calls a listener with a Set, Update, Remove or
\* Transaction event
CalledWithWrite ==
  InLoop /\ InCallback' /\ Top.event.type \in WriteEventTypes

(***************************************************************************)
(* C39  Whenever a listener is called with a Set, Update, Remove or        *)
(* Transaction event, activeUpdate and activeTransaction are both false,   *)
(* so that canMutateSubscriptions() is true, and the write the event       *)
(* reports has been applied to the state: the first listener called finds  *)
(* the value of a Set or Update event stored at the path of the event.     *)
(***************************************************************************)
C39_IdleAtDelivery ==
  [][ CalledWithWrite =>
        /\ ~activeUpdate /\ ~activeTransaction
        /\ canMutateSubscriptions(Cur)
        /\ (Top.visited = {} /\ Top.event.type \in {"SET", "UPDATE"})
             => Top.event.value = StoredAt(heap, state, Top.event.path)
    ]_vars

\* transaction() has just returned normally
JustCompleted ==
  stack = <<>> /\ lastResult.op = "transaction" /\ lastResult.res = "ok"

(***************************************************************************)
(* C36  After a transaction whose body and deferred writes have all        *)
(* completed the engine is Idle again: activeTransaction is false, the     *)
(* queue of deferred writes and the list of buffered events are empty, the *)
(* Transaction event it has delivered holds the events buffered during it, *)
(* the next write is carried out at once and the next transaction is       *)
(* accepted and starts with nothing buffered.                              *)
(***************************************************************************)
C36_BackToIdle ==
  [][ /\ TxCompletes =>
           /\ ~activeTransaction' /\ ~activeUpdate'
           /\ transactionWrites' = <<>> /\ transactionEvents' = <<>>
           /\ stack' = <<>>
           /\ \A l \in listeners :
                NewEvents(l) = <<createTransactionEvent(transactionEvents)>>
      /\ \A op \in WriteOps :
           (JustCompleted /\ Calls(op)) =>
             /\ lastResult'.res # "deferred"
             /\ transactionWrites' = <<>>
      /\ (JustCompleted /\ Calls("transaction")) =>
           /\ lastResult'.res = "running"
           /\ activeTransaction'
           /\ transactionEvents' = <<>> /\ transactionWrites' = <<>>
    ]_vars

\* a second transaction, with an empty body, has completed after a first
\* one that reported an event: the listener's last event is a Transaction
\* event without events, the one before it a Transaction event with one
C36_Witness ==
  /\ JustCompleted /\ "l1" \in listeners
  /\ Len(delivered["l1"]) >= 2
  /\ LET n == Len(delivered["l1"]) IN
       /\ delivered["l1"][n].type = "TRANSACTION"
       /\ delivered["l1"][n].events = <<>>
       /\ delivered["l1"][n - 1].type = "TRANSACTION"
       /\ Len(delivered["l1"][n - 1].events) = 1

(***************************************************************************)
(* C37  Whenever no call of the access layer is in progress, activeUpdate  *)
(* and activeTransaction are false and the queue of deferred writes and    *)
(* the list of buffered events are empty; hence a set, update or remove    *)
(* issued outside the body of a transaction is carried out, or raises,     *)
(* before the call returns, and is never left pending.                     *)
(***************************************************************************)
C37_Quiescence ==
  [][ /\ stack' = <<>> =>
           /\ ~activeUpdate' /\ ~activeTransaction'
           /\ transactionWrites' = <<>> /\ transactionEvents' = <<>>
      /\ \A op \in WriteOps :
           (~TxOpen /\ Calls(op)) => lastResult'.res # "deferred"
    ]_vars

(***************************************************************************)
(* C40: the event predicates depend only on the kind of the event and      *)
(* partition the kinds: each of isInitEvent, isGetEvent, isSetEvent,       *)
(* isUpdateEvent, isRemoveEvent, isTransactionEvent is true for exactly    *)
(* one kind, exactly one of them is true for any event, isWriteEvent is    *)
(* true exactly when isSetEvent, isUpdateEvent or isRemoveEvent is, and    *)
(* isCRUDEvent exactly when isGetEvent or isWriteEvent is                  *)
(***************************************************************************)
KindGuards ==
  {"isInitEvent", "isGetEvent", "isSetEvent", "isUpdateEvent",
   "isRemoveEvent", "isTransactionEvent"}

Classified == lastResult.op = "guards"

\* the kinds for which the predicate g answers true, over all the events
KindsOf(g) == {e.type : e \in {x \in StoreEvents : Guards(x)[g]}}

C40_GuardsPartition ==
  Classified =>
    LET event == lastResult.val.event
        answers == lastResult.val.val
    IN  /\ \A other \in StoreEvents :
             other.type = event.type => Guards(other) = answers
        /\ \A g \in KindGuards : Cardinality(KindsOf(g)) = 1
        /\ Cardinality({g \in KindGuards : answers[g]}) = 1
        /\ answers.isWriteEvent <=>
             (answers.isSetEvent \/ answers.isUpdateEvent
                \/ answers.isRemoveEvent)
        /\ answers.isCRUDEvent <=>
             (answers.isGetEvent \/ answers.isWriteEvent)

\* a listener has classified a removal: a write, a CRUD event, nothing else
C40_Witness ==
  /\ Classified
  /\ lastResult.val.event.type = "REMOVE"
  /\ lastResult.val.val.isRemoveEvent
  /\ lastResult.val.val.isWriteEvent
  /\ lastResult.val.val.isCRUDEvent
  /\ ~lastResult.val.val.isSetEvent

====
